---- MODULE Spec2Model ----
(***************************************************************************)
(* Model of mailtm/server/srv.py: MailServerBase, the polling server that  *)
(* detects a new newest message / a new newest domain and dispatches typed *)
(* events to registered asynchronous handlers.                             *)
(*                                                                         *)
(* The coroutine runner() is one control flow; pc is its position.  Every  *)
(* `await` of the source is a suspension point and therefore a value of pc *)
(* (the interval sleep, the two fetches, a handler invocation, the two     *)
(* close() calls); the code between two awaits runs atomically and is one  *)
(* action.  The banner and the wall-clock length of the sleep have no      *)
(* effect on the state and are left out.                                   *)
(***************************************************************************)
EXTENDS Integers, Sequences, FiniteSets, TLC

\* ---------------------------------------------------------------- bounds
MaxTicks == 4
MaxReg == 2
MaxView == 2

\* ------------------------------------------------------------ value sets
Categories == {"NewMessage", "DomainChange", "BaseEvent"}
HandlerIds == {"h1", "h2"}
Ids == {1, 2}
Bodies == {0, 1}
\* an entity (Message or Domain): its identifier and everything else
Entities == [id : Ids, body : Bodies]
NoEnt == [id |-> 0, body |-> 0]
\* Optional[MessageView] / Optional[DomainView]: None, or a list, newest first
Views ==
    {[present |-> FALSE, items |-> <<>>]} \cup
    {[present |-> TRUE, items |-> s] :
        s \in UNION {[1..n -> Entities] : n \in 0..MaxView}}

VARIABLES
    handlers,         \* self.handlers: dict event type -> list of handlers
    regs,             \* history: the registration calls made, per category
    logging_enabled,  \* self._logging_enabled
    suppress_errors,  \* self._suppress_errors
    last_msg,         \* self._last_msg
    last_domain,      \* self._last_domain
    pc,               \* position of runner()
    cur,              \* the dispatch in progress: category, index, entity
    tick,             \* number of completed sleeps
    close_calls,      \* number of calls of mail_client.close()
    exc,              \* the failure that left the while loop (`e`, line 292)
    runner_result,    \* how runner() ended
    run_result,       \* how run() ended
    trace,            \* history: what the check in progress did, in order
    earlier,          \* history: totals of the tick's checks before that one
    prev_fetched      \* history: newest id of the latest earlier non-empty fetch

vars == <<handlers, regs, logging_enabled, suppress_errors, last_msg,
          last_domain, pc, cur, tick, close_calls, exc, runner_result,
          run_result, trace, earlier, prev_fetched>>

\* ------------------------------------------------------- history records
\* n: for a view, -1 absent, 0 empty, 1 one entity, 2 several; else 0
R(op, cat, h, ent, n) == [op |-> op, cat |-> cat, h |-> h, ent |-> ent, n |-> n]
RFetch(cat) == R("fetch", cat, "", NoEnt, 0)
RView(cat, view) ==
    R("view", cat, "",
      IF view.present /\ Len(view.items) > 0 THEN view.items[1] ELSE NoEnt,
      IF ~view.present THEN -1
      ELSE IF Len(view.items) > 1 THEN 2 ELSE Len(view.items))
RSet(cat, ent) == R("set", cat, "", ent, 0)
REvent(cat, ent) == R("event", cat, "", ent, 0)
RCall(cat, h, ent) == R("call", cat, h, ent, 0)
RRet(cat, h) == R("ret", cat, h, NoEnt, 0)
RRaise(cat, h) == R("raise", cat, h, NoEnt, 0)
RFetchFail(cat) == R("fetch_fail", cat, "", NoEnt, 0)
RDispatched(cat) == R("dispatched", cat, "", NoEnt, 0)
RClose == R("close", "", "", NoEnt, 0)
RInterrupt == R("interrupt", "", "", NoEnt, 0)
RPrint(tag, style) == R("print", tag, style, NoEnt, 0)

NoCur == [cat |-> "", idx |-> 0, ent |-> NoEnt]

\* ------------------------------------------------------------------ log
\* log(): nothing unless logging is enabled; an INFO line for INFO; then
\* WARNING / ERROR lines unless errors are suppressed, and the
\* "Unrecognized severity" line when they are suppressed.
log(tag, severity) ==
    IF logging_enabled
    THEN (IF severity = "INFO" THEN <<RPrint(tag, "INFO")>> ELSE <<>>)
         \o (IF ~suppress_errors
             THEN (IF severity = "WARNING" THEN <<RPrint(tag, "WARNING")>>
                   ELSE IF severity = "ERROR" THEN <<RPrint(tag, "ERROR")>>
                   ELSE <<>>)
             ELSE <<RPrint(tag, "UNRECOGNIZED")>>)
    ELSE <<>>

\* ------------------------------------------------------------- registry
\* a registration that drops a handler already registered for the type
Register_once(hs, cat, h) ==
    [c \in (DOMAIN hs) \cup {cat} |->
        IF c = cat
        THEN (IF cat \in DOMAIN hs
              THEN (IF \E k \in 1..Len(hs[cat]) : hs[cat][k] = h
                    THEN hs[cat] ELSE Append(hs[cat], h))
              ELSE <<h>>)
        ELSE hs[c]]

\* the body of subscribe's decorator, on_new_message and on_new_domain
Register(hs, cat, h) ==
    [c \in (DOMAIN hs) \cup {cat} |->
        IF c = cat
        THEN Append(IF cat \in DOMAIN hs THEN hs[cat] ELSE <<>>, h)
        ELSE hs[c]]

\* self.handlers.get(type(event), [])
HandlersFor(cat) == IF cat \in DOMAIN handlers THEN handlers[cat] ELSE <<>>

RegCount == Len(regs["NewMessage"]) + Len(regs["DomainChange"]) + Len(regs["BaseEvent"])

\* the handlers are functions the user names: h1 is the first one registered
Fresh(h) == h = "h1" \/ RegCount > 0

\* ------------------------------------------------- control of runner()
\* where the coroutine suspends next, and what it did on the way there
\* (past: the records of a check that has returned, when another one begins)
Go(p, tr, c, k, e) ==
    [pc |-> p, trace |-> tr, cur |-> c, closes |-> k, exc |-> e, past |-> <<>>]

\* an except block inside the loop: close() is called and the loop goes on
Except_goes_on(tr, e) == Go("sleep", Append(tr, RClose), NoCur, 1, e)

\* lines 292-293: an Exception leaves the loop, close() is called
Except(tr, e) == Go("close_exc", Append(tr, RClose), NoCur, 1, e)

\* an exit taken when neither polled category has a handler
CheckSubscribed_no_polled(tr) ==
    IF "NewMessage" \notin DOMAIN handlers /\ "DomainChange" \notin DOMAIN handlers
    THEN Go("close_nosub", Append(tr, RClose), NoCur, 1, "none")
    ELSE Go("sleep", tr, NoCur, 0, "none")

\* lines 287-291, and back to the sleep of line 282
CheckSubscribed(tr) ==
    IF DOMAIN handlers = {}
    THEN Go("close_nosub", Append(tr, RClose), NoCur, 1, "none")
    ELSE Go("sleep", tr, NoCur, 0, "none")

\* lines 285-286
DomainStep(tr) ==
    IF "DomainChange" \in DOMAIN handlers
    THEN [Go("get_domains", <<RFetch("DomainChange")>>, NoCur, 0, "none")
            EXCEPT !.past = tr]
    ELSE CheckSubscribed(tr)

\* a loop that checks for messages whatever is subscribed
MessageStep_always(tr) ==
    Go("get_messages", Append(tr, RFetch("NewMessage")), NoCur, 0, "none")

\* lines 283-284
MessageStep(tr) ==
    IF "NewMessage" \in DOMAIN handlers
    THEN Go("get_messages", Append(tr, RFetch("NewMessage")), NoCur, 0, "none")
    ELSE DomainStep(tr)

\* what follows the return of a _check_for_new_* call
AfterCheck(cat, tr) ==
    IF cat = "NewMessage" THEN DomainStep(tr) ELSE CheckSubscribed(tr)

\* lines 183 and 211: the log call that follows the awaited dispatch
AfterDispatch(cat, tr) ==
    AfterCheck(cat,
        Append(tr, RDispatched(cat))
        \o (IF cat = "NewMessage" THEN log("received", "INFO")
            ELSE log("domain_changed", "WARNING")))

\* a dispatch that starts the handlers without awaiting them
dispatch_no_await(cat, ent, i, tr) ==
    IF i <= Len(HandlersFor(cat))
    THEN AfterDispatch(cat, Append(tr, RCall(cat, HandlersFor(cat)[i], ent)))
    ELSE AfterDispatch(cat, tr)

\* dispatch(): the loop over the handlers of the event's type, at handler i
dispatch(cat, ent, i, tr) ==
    IF i <= Len(HandlersFor(cat))
    THEN Go("handler", Append(tr, RCall(cat, HandlersFor(cat)[i], ent)),
            [cat |-> cat, idx |-> i, ent |-> ent], 0, "none")
    ELSE AfterDispatch(cat, tr)

\* `msg_view and msg_view.messages` / `domain_view and domain_view.domains`
Truthy(view) == view.present /\ Len(view.items) > 0

\* a comparison that forgets the empty slot
IsNew_seen_only(slot, ent) == slot # <<>> /\ slot[1].id # ent.id

\* a comparison of whole entities
IsNew_by_value(slot, ent) == slot = <<>> \/ slot[1] # ent

\* lines 168-171 and 196-199: identity is the identifier alone
IsNew(slot, ent) == slot = <<>> \/ slot[1].id # ent.id

\* a store that always appends
Store_append(slot, ent) == Append(slot, ent)

\* a store that never overwrites
Store_first_only(slot, ent) == IF slot # <<>> THEN slot ELSE Append(slot, ent)

\* lines 172-175 and 200-203: overwrite the element, or append the first
Store(slot, ent) == IF slot # <<>> THEN [slot EXCEPT ![1] = ent] ELSE Append(slot, ent)

\* a check that dispatches the event without having stored its entity
check_for_new_messages_unstored(view, tr) ==
    IF Truthy(view) /\ IsNew(last_msg, view.items[1])
    THEN [slot |-> last_msg,
          ctl |-> dispatch("NewMessage", view.items[1], 1,
                     Append(tr, REvent("NewMessage", view.items[1])))]
    ELSE [slot |-> last_msg, ctl |-> AfterCheck("NewMessage", tr)]

\* a check that reports the entity at the end of the list
check_for_new_messages_oldest(view, tr) ==
    IF Truthy(view) /\ IsNew(last_msg, view.items[Len(view.items)])
    THEN [slot |-> Store(last_msg, view.items[Len(view.items)]),
          ctl |-> dispatch("NewMessage", view.items[Len(view.items)], 1,
                     tr \o <<RSet("NewMessage", view.items[Len(view.items)]),
                             REvent("NewMessage", view.items[Len(view.items)])>>)]
    ELSE [slot |-> last_msg, ctl |-> AfterCheck("NewMessage", tr)]

\* a check that takes an empty list for "no message left"
check_for_new_messages_clearing(view, tr) ==
    IF Truthy(view) /\ IsNew(last_msg, view.items[1])
    THEN [slot |-> Store(last_msg, view.items[1]),
          ctl |-> dispatch("NewMessage", view.items[1], 1,
                     tr \o <<RSet("NewMessage", view.items[1]),
                             REvent("NewMessage", view.items[1])>>)]
    ELSE [slot |-> IF view.present /\ view.items = <<>> THEN <<>> ELSE last_msg,
          ctl |-> AfterCheck("NewMessage", tr)]

\* _check_for_new_messages from the return of get_messages() on
check_for_new_messages(view, tr) ==
    IF Truthy(view) /\ IsNew(last_msg, view.items[1])
    THEN [slot |-> Store(last_msg, view.items[1]),
          ctl |-> dispatch("NewMessage", view.items[1], 1,
                     tr \o <<RSet("NewMessage", view.items[1]),
                             REvent("NewMessage", view.items[1])>>)]
    ELSE [slot |-> last_msg, ctl |-> AfterCheck("NewMessage", tr)]

\* a check that stores every fetched domain and reports the new ones
check_for_new_domain_refresh(view, tr) ==
    IF Truthy(view) /\ IsNew(last_domain, view.items[1])
    THEN [slot |-> Store(last_domain, view.items[1]),
          ctl |-> dispatch("DomainChange", view.items[1], 1,
                     tr \o <<RSet("DomainChange", view.items[1]),
                             REvent("DomainChange", view.items[1])>>)]
    ELSE [slot |-> IF Truthy(view) THEN Store(last_domain, view.items[1])
                   ELSE last_domain,
          ctl |-> AfterCheck("DomainChange",
                     IF Truthy(view)
                     THEN Append(tr, RSet("DomainChange", view.items[1]))
                     ELSE tr)]

\* _check_for_new_domain from the return of get_domains() on
check_for_new_domain(view, tr) ==
    IF Truthy(view) /\ IsNew(last_domain, view.items[1])
    THEN [slot |-> Store(last_domain, view.items[1]),
          ctl |-> dispatch("DomainChange", view.items[1], 1,
                     tr \o <<RSet("DomainChange", view.items[1]),
                             REvent("DomainChange", view.items[1])>>)]
    ELSE [slot |-> last_domain, ctl |-> AfterCheck("DomainChange", tr)]

Apply(ctl) ==
    /\ pc' = ctl.pc
    /\ trace' = ctl.trace
    /\ cur' = ctl.cur
    /\ close_calls' = close_calls + ctl.closes
    /\ exc' = IF ctl.exc = "none" THEN exc ELSE ctl.exc

\* the totals of the records of a check
Total(tr) ==
    [cat |-> tr[1].cat,
     events |-> Cardinality({i \in 1..Len(tr) : tr[i].op = "event"}),
     calls |-> Cardinality({i \in 1..Len(tr) : tr[i].op = "call"}),
     returns |-> Cardinality({i \in 1..Len(tr) : tr[i].op = "ret"})]

\* newest id of the non-empty fetch of category cat in tr, else the old one
Fetched(tr, cat, old) ==
    IF \E i \in 1..Len(tr) : tr[i].op = "view" /\ tr[i].cat = cat /\ tr[i].n > 0
    THEN (CHOOSE r \in {tr[i] : i \in 1..Len(tr)} :
              r.op = "view" /\ r.cat = cat /\ r.n > 0).ent.id
    ELSE old

\* ------------------------------------------------------------------ Init
\* the histories, when a step of the tick has been taken
Archive(ctl) ==
    IF ctl.past = <<>>
    THEN UNCHANGED <<earlier, prev_fetched>>
    ELSE /\ earlier' = Append(earlier, Total(ctl.past))
         /\ prev_fetched' = [c \in DOMAIN prev_fetched |->
                                Fetched(ctl.past, c, prev_fetched[c])]

\* the state after __init__, but for the two logging flags
Constructed ==
    /\ handlers = <<>>
    /\ regs = [c \in Categories |-> <<>>]
    /\ last_msg = <<>>
    /\ last_domain = <<>>
    /\ pc = "config"
    /\ cur = NoCur
    /\ tick = 0
    /\ close_calls = 0
    /\ exc = "none"
    /\ runner_result = "running"
    /\ run_result = "running"
    /\ trace = <<>>
    /\ earlier = <<>>
    /\ prev_fetched = [c \in {"NewMessage", "DomainChange"} |-> 0]

\* a server constructed with the default flags (lines 33-34)
Init ==
    /\ Constructed
    /\ logging_enabled = FALSE
    /\ suppress_errors = FALSE

\* a server constructed with any flags (None acts as FALSE for
\* enable_logging and as TRUE for suppress_errors: `is True`, `is False`)
InitLogging ==
    /\ Constructed
    /\ logging_enabled \in BOOLEAN
    /\ suppress_errors \in BOOLEAN

\* --------------------------------------------------------------- actions
Unreg == <<logging_enabled, suppress_errors, last_msg, last_domain, pc, cur,
           tick, close_calls, exc, runner_result, run_result, trace, earlier,
           prev_fetched>>

\* @server.subscribe(event_type)
subscribe ==
    \E cat \in Categories, h \in HandlerIds :
        /\ pc = "config"
        /\ RegCount < MaxReg
        /\ Fresh(h)
        /\ handlers' = Register(handlers, cat, h)
        /\ regs' = [regs EXCEPT ![cat] = Append(@, h)]
        /\ UNCHANGED Unreg

\* @server.on_new_message
on_new_message ==
    \E h \in HandlerIds :
        /\ pc = "config"
        /\ RegCount < MaxReg
        /\ Fresh(h)
        /\ handlers' = Register(handlers, "NewMessage", h)
        /\ regs' = [regs EXCEPT !["NewMessage"] = Append(@, h)]
        /\ UNCHANGED Unreg

\* @server.on_new_domain
on_new_domain ==
    \E h \in HandlerIds :
        /\ pc = "config"
        /\ RegCount < MaxReg
        /\ Fresh(h)
        /\ handlers' = Register(handlers, "DomainChange", h)
        /\ regs' = [regs EXCEPT !["DomainChange"] = Append(@, h)]
        /\ UNCHANGED Unreg

Static == <<handlers, regs, logging_enabled, suppress_errors>>

\* run() calls runner(): the five status lines, then the first sleep
RunnerStart ==
    /\ pc = "config"
    /\ pc' = "sleep"
    /\ trace' = log("session_started", "INFO") \o log("pooling_rate", "INFO")
                \o log("logging_enabled", "INFO") \o log("banner_enabled", "INFO")
                \o log("subscribed_events", "INFO")
    /\ UNCHANGED <<Static, last_msg, last_domain, cur, tick, close_calls, exc,
                   runner_result, run_result, earlier, prev_fetched>>

\* what a step inside a tick leaves alone besides the slots
Kept == <<Static, tick, runner_result, run_result>>

\* asyncio.sleep returns: a tick begins
SleepDone ==
    /\ pc = "sleep"
    /\ tick < MaxTicks
    /\ tick' = tick + 1
    /\ earlier' = <<>>
    /\ prev_fetched' = [c \in DOMAIN prev_fetched |-> Fetched(trace, c, prev_fetched[c])]
    /\ Apply(MessageStep(<<>>))
    /\ UNCHANGED <<Static, last_msg, last_domain, runner_result, run_result>>

\* get_messages() returns a view
GetMessagesReturn ==
    \E view \in Views :
        /\ pc = "get_messages"
        /\ LET res == check_for_new_messages(view, Append(trace, RView("NewMessage", view)))
           IN  /\ last_msg' = res.slot
               /\ Apply(res.ctl)
               /\ Archive(res.ctl)
        /\ UNCHANGED <<Kept, last_domain>>

\* get_messages() raises
GetMessagesFail ==
    /\ pc = "get_messages"
    /\ Apply(Except(Append(trace, RFetchFail("NewMessage")), "fetch"))
    /\ UNCHANGED <<Kept, last_msg, last_domain, earlier, prev_fetched>>

\* get_domains() returns a view
GetDomainsReturn ==
    \E view \in Views :
        /\ pc = "get_domains"
        /\ LET res == check_for_new_domain(view, Append(trace, RView("DomainChange", view)))
           IN  /\ last_domain' = res.slot
               /\ Apply(res.ctl)
               /\ Archive(res.ctl)
        /\ UNCHANGED <<Kept, last_msg>>

\* get_domains() raises
GetDomainsFail ==
    /\ pc = "get_domains"
    /\ Apply(Except(Append(trace, RFetchFail("DomainChange")), "fetch"))
    /\ UNCHANGED <<Kept, last_msg, last_domain, earlier, prev_fetched>>

\* the awaited handler returns: dispatch goes on to the next handler
HandlerReturn ==
    /\ pc = "handler"
    /\ LET ctl == dispatch(cur.cat, cur.ent, cur.idx + 1,
                     Append(trace, RRet(cur.cat, HandlersFor(cur.cat)[cur.idx])))
       IN  Apply(ctl) /\ Archive(ctl)
    /\ UNCHANGED <<Kept, last_msg, last_domain>>

\* a dispatch that contains the failure of a handler and goes on
HandlerRaise_contained ==
    /\ pc = "handler"
    /\ LET ctl == dispatch(cur.cat, cur.ent, cur.idx + 1,
                     Append(trace, RRaise(cur.cat, HandlersFor(cur.cat)[cur.idx])))
       IN  Apply(ctl) /\ Archive(ctl)
    /\ UNCHANGED <<Kept, last_msg, last_domain>>

\* a failure that ends the dispatch and lets the tick go on
HandlerRaise_tick_goes_on ==
    /\ pc = "handler"
    /\ LET ctl == AfterCheck(cur.cat,
                     Append(trace, RRaise(cur.cat, HandlersFor(cur.cat)[cur.idx])))
       IN  Apply(ctl) /\ Archive(ctl)
    /\ UNCHANGED <<Kept, last_msg, last_domain>>

\* the awaited handler raises: nothing between it and line 292 catches
HandlerRaise ==
    /\ pc = "handler"
    /\ Apply(Except(Append(trace, RRaise(cur.cat, HandlersFor(cur.cat)[cur.idx])),
                    "handler"))
    /\ UNCHANGED <<Kept, last_msg, last_domain, earlier, prev_fetched>>

\* close() of line 288 returns: line 289 raises, line 292 catches, line 293
NoSubscribersClosed ==
    /\ pc = "close_nosub"
    /\ Apply(Except(trace, "nosub"))
    /\ UNCHANGED <<Kept, last_msg, last_domain, earlier, prev_fetched>>

\* close() of line 288 raises: line 292 catches, line 293
NoSubscribersCloseFail ==
    /\ pc = "close_nosub"
    /\ Apply(Except(trace, "close"))
    /\ UNCHANGED <<Kept, last_msg, last_domain, earlier, prev_fetched>>

\* close() of line 293 returns: the log of line 294, runner and run return
ExceptClosed ==
    /\ pc = "close_exc"
    /\ pc' = "done"
    /\ trace' = trace \o log("exception", "INFO")
    /\ runner_result' = "returned"
    /\ run_result' = "returned"
    /\ UNCHANGED <<Static, last_msg, last_domain, cur, tick, close_calls, exc,
                   earlier, prev_fetched>>

\* close() of line 293 raises inside the except block: it leaves runner(),
\* and run() catches KeyboardInterrupt only
ExceptCloseFail ==
    /\ pc = "close_exc"
    /\ pc' = "done"
    /\ runner_result' = "Exception"
    /\ run_result' = "raised"
    /\ UNCHANGED <<Static, last_msg, last_domain, cur, tick, close_calls, exc,
                   trace, earlier, prev_fetched>>

Suspended == {"sleep", "get_messages", "get_domains", "handler", "close_nosub", "close_exc"}

\* KeyboardInterrupt at an await: it is no Exception, so line 292 does not
\* catch it and close() is not called; run() catches it and logs (306-310).
\* (A cancellation leaves runner() the same way, CancelledError being a
\* BaseException too.)
Interrupt ==
    /\ pc \in Suspended
    /\ pc' = "done"
    /\ runner_result' = "KeyboardInterrupt"
    /\ run_result' = "returned"
    /\ trace' = Append(trace, RInterrupt) \o log("goodbye", "WARNING")
    /\ UNCHANGED <<Static, last_msg, last_domain, cur, tick, close_calls, exc,
                   earlier, prev_fetched>>

Next ==
    \/ subscribe
    \/ on_new_message
    \/ on_new_domain
    \/ RunnerStart
    \/ SleepDone
    \/ GetMessagesReturn
    \/ GetMessagesFail
    \/ GetDomainsReturn
    \/ GetDomainsFail
    \/ HandlerReturn
    \/ HandlerRaise
    \/ NoSubscribersClosed
    \/ NoSubscribersCloseFail
    \/ ExceptClosed
    \/ ExceptCloseFail
    \/ Interrupt

Spec == Init /\ [][Next]_vars

SpecLogging == InitLogging /\ [][Next]_vars

TypeOK ==
    /\ pc \in {"config", "done"} \cup Suspended
    /\ close_calls \in 0..2
    /\ tick \in 0..MaxTicks
    /\ Len(last_msg) <= 1
    /\ Len(last_domain) <= 1

\* ---------------------------------------------------------- observations
Idx == 1..Len(trace)
Is(i, op, cat) == trace[i].op = op /\ trace[i].cat = cat
Where(op, cat) == {i \in Idx : Is(i, op, cat)}
Ops(op) == {i \in Idx : trace[i].op = op}
Polled == {"NewMessage", "DomainChange"}
Slot(cat) == IF cat = "NewMessage" THEN last_msg ELSE last_domain
NoRegistration == \A c \in Categories : regs[c] = <<>>
Failures == Ops("raise") \cup Ops("fetch_fail")

\* ------------------------------------------------------------------- C1
\* C1: a loop started with no handler of any kind ends on its first tick,
\* emits no event, and close() has been called exactly once when it ends.
C1_NoSubscriberClosesOnce ==
    (NoRegistration /\ pc = "done" /\ runner_result = "returned")
        => (tick = 1 /\ Ops("event") = {} /\ close_calls = 1)

\* ------------------------------------------------------------------- C2
\* C2: when the loop is interrupted at a suspension point, close() has been
\* called by the time run() returns.
C2_InterruptCloses ==
    (pc = "done" /\ runner_result = "KeyboardInterrupt" /\ run_result = "returned")
        => close_calls >= 1

\* ------------------------------------------------------------------- C3
\* C3: once a handler or a fetch has failed in a tick, the loop is on its
\* way out: nothing but the close and the report follows the failure in the
\* tick, no further tick begins, and close() is called exactly once.
C3_FailFast ==
    /\ \A i \in Failures :
          /\ pc \in {"close_exc", "done"}
          /\ exc \in {"handler", "fetch"}
          /\ close_calls = 1
          /\ Cardinality(Ops("close")) = 1
          /\ \A j \in Idx : j > i => trace[j].op \in {"close", "print", "interrupt"}
    /\ exc \in {"handler", "fetch"} => (Failures # {} /\ pc \in {"close_exc", "done"})

\* a DomainChange handler that fails on a later invocation than its first,
\* the loop having ended
C3_Witness ==
    /\ pc = "done"
    /\ runner_result = "returned"
    /\ tick >= 2
    /\ prev_fetched["DomainChange"] # 0
    /\ Where("raise", "DomainChange") # {}
    /\ close_calls = 1

\* ------------------------------------------------------------------- C4
\* C4: a loop ended by a handler or fetch failure has printed a record of
\* that failure, whatever the logging flags.
C4_FailureReported ==
    (pc = "done" /\ runner_result = "returned" /\ exc \in {"handler", "fetch"})
        => Where("print", "exception") # {}

\* ------------------------------------------------------------------- C5
\* C5: with no subscription, runner() ends by raising an Exception to its
\* caller, not by returning.
C5_NoSubscriptionRaises ==
    (NoRegistration /\ pc = "done" /\ exc = "nosub" /\ runner_result # "KeyboardInterrupt")
        => runner_result = "Exception"

\* ------------------------------------------------------------------- C6
\* C6: in the first tick whose fetch of a category returns a non-empty view
\* (no earlier fetch of it was non-empty), the slot of the category goes
\* from empty to the fetched newest entity and the tick has exactly one
\* event of that category, carrying that entity; before that the slot is
\* empty.
FirstViews(cat) ==
    {i \in Where("view", cat) : trace[i].n > 0 /\ prev_fetched[cat] = 0}

C6_FirstObservation ==
    \A cat \in Polled :
        /\ \A i \in FirstViews(cat) :
              /\ Slot(cat) = <<trace[i].ent>>
              /\ Where("event", cat) = {i + 2}
              /\ trace[i + 2].ent = trace[i].ent
        /\ (prev_fetched[cat] = 0 /\ FirstViews(cat) = {}) => Slot(cat) = <<>>

\* a domain first observed in a tick that follows a tick whose fetch was
\* absent or empty, after the message check of the same tick
C6_Witness ==
    /\ tick >= 2
    /\ FirstViews("DomainChange") # {}
    /\ Where("event", "DomainChange") # {}
    /\ last_domain # <<>>
    /\ \E k \in 1..Len(earlier) : earlier[k].cat = "NewMessage"

\* ------------------------------------------------------------------- C7
\* C7: a fetch whose newest entity has the identifier of the entity in the
\* slot leaves the slot as it is and produces no event of the category
\* (no store, no event, no handler call), whatever the other fields are.
SameIdStep(cat) ==
    LET n == Len(trace)
    IN  (/\ Len(trace') > n
         /\ trace'[n + 1].op = "view"
         /\ trace'[n + 1].cat = cat
         /\ trace'[n + 1].n > 0
         /\ Slot(cat) # <<>>
         /\ Slot(cat)[1].id = trace'[n + 1].ent.id)
        => /\ (IF cat = "NewMessage" THEN last_msg' ELSE last_domain') = Slot(cat)
           /\ \A j \in 1..Len(trace') :
                 trace'[j].cat = cat => trace'[j].op \notin {"set", "event", "call"}

C7_SameIdNoEvent == [][\A cat \in Polled : SameIdStep(cat)]_vars

\* a fetch of the identifier in the slot with another body, and no event
C7_Witness ==
    \E i \in Where("view", "NewMessage") :
        /\ trace[i].n > 0
        /\ last_msg # <<>>
        /\ last_msg[1].id = trace[i].ent.id
        /\ last_msg[1].body # trace[i].ent.body
        /\ Where("event", "NewMessage") = {}
        /\ pc = "sleep"

\* ------------------------------------------------------------------- C8
\* C8: with one NewMessage handler, the handler is called in a tick exactly
\* when the tick's fetch is non-empty and its newest identifier is not the
\* newest identifier of the latest earlier non-empty fetch (or there is no
\* such fetch); it is called once, with the fetched newest entity.
C8_InvokedOnChange ==
    Len(regs["NewMessage"]) = 1 =>
        /\ \A i \in Where("view", "NewMessage") :
              IF trace[i].n > 0 /\ trace[i].ent.id # prev_fetched["NewMessage"]
              THEN /\ Where("call", "NewMessage") = {i + 3}
                   /\ trace[i + 3].h = regs["NewMessage"][1]
                   /\ trace[i + 3].ent = trace[i].ent
              ELSE Where("call", "NewMessage") = {}
        /\ Where("view", "NewMessage") = {} => Where("call", "NewMessage") = {}

\* fourth tick: the identifier differs from the one fetched before, the
\* handler is called with it
C8_Witness ==
    /\ Len(regs["NewMessage"]) = 1
    /\ tick = 4
    /\ prev_fetched["NewMessage"] = 1
    /\ \E i \in Where("call", "NewMessage") : trace[i].ent.id = 2
    /\ pc = "sleep"

\* ------------------------------------------------------------------- C9
\* C9: when the domain fetch of a tick begins, every NewMessage handler of
\* the tick's NewMessage event has been called and has returned, and no
\* NewMessage activity follows; at most one fetch or handler is in progress
\* at any time, and none is when the next sleep starts.
MessageTotals == {earlier[k] : k \in 1..Len(earlier)}

Started(n) == {i \in 1..n : trace[i].op \in {"fetch", "call"}}
Ended(n) == {i \in 1..n : trace[i].op \in {"view", "fetch_fail", "ret", "raise"}}
InProgress(n) == Cardinality(Started(n)) - Cardinality(Ended(n))

C9_Sequential ==
    /\ \A j \in Where("fetch", "DomainChange") :
          /\ \A i \in Idx : trace[i].cat # "NewMessage"
          /\ \A t \in MessageTotals :
                /\ t.cat = "NewMessage"
                /\ t.returns = t.calls
                /\ t.calls = IF t.events > 0 THEN Len(regs["NewMessage"]) ELSE 0
    /\ earlier # <<>> => Where("fetch", "DomainChange") # {}
    /\ \A n \in Idx : InProgress(n) \in {0, 1}
    /\ pc = "sleep" => InProgress(Len(trace)) = 0

\* a tick in which both categories changed, both dispatches done
C9_Witness ==
    /\ \E t \in MessageTotals : t.events = 1 /\ t.returns = 1
    /\ Where("dispatched", "DomainChange") # {}
    /\ pc = "sleep"

\* ------------------------------------------------------------------ C10
\* C10: the handlers called for an event are the handlers registered for
\* its category, in the order of registration, once per registration and
\* each after the one before it has returned; when the dispatch is over all
\* of them have been called; no handler is called without an event of its
\* category.
CallsOf(cat) == SelectSeq(trace, LAMBDA r : r.op = "call" /\ r.cat = cat)

C10_DispatchOrder ==
    /\ \A cat \in Polled :
          /\ Len(CallsOf(cat)) <= Len(regs[cat])
          /\ \A k \in 1..Len(CallsOf(cat)) : CallsOf(cat)[k].h = regs[cat][k]
          /\ Where("dispatched", cat) # {} => Len(CallsOf(cat)) = Len(regs[cat])
    /\ \A i \in Ops("call") :
          /\ \E e \in Where("event", trace[i].cat) :
                e < i /\ trace[e].ent = trace[i].ent
          /\ i < Len(trace) =>
                /\ trace[i + 1].op \in {"ret", "raise", "interrupt"}
                /\ trace[i + 1].op # "interrupt" => trace[i + 1].h = trace[i].h

\* one handler registered twice for NewMessage: it is called twice for the
\* event
C10_Witness ==
    /\ regs["NewMessage"] = <<"h1", "h1">>
    /\ Where("dispatched", "NewMessage") # {}
    /\ Cardinality(Where("call", "NewMessage")) = 2

\* ------------------------------------------------------------------ C11
\* C11: a fetch that returns no view or an empty view leaves the slot of the
\* category as it is and produces no event (no store, no event, no handler
\* call); so an identifier that comes back after such fetches, being the
\* newest identifier of the latest non-empty fetch, produces no event.
EmptyViewStep(cat) ==
    LET n == Len(trace)
    IN  (/\ Len(trace') > n
         /\ trace'[n + 1].op = "view"
         /\ trace'[n + 1].cat = cat
         /\ trace'[n + 1].n <= 0)
        => /\ (IF cat = "NewMessage" THEN last_msg' ELSE last_domain') = Slot(cat)
           /\ \A j \in 1..Len(trace') :
                 trace'[j].cat = cat => trace'[j].op \notin {"set", "event", "call"}

Reappeared(cat) ==
    {i \in Where("view", cat) :
        trace[i].n > 0 /\ trace[i].ent.id = prev_fetched[cat]}

C11_EmptyFetchKeepsSlot ==
    /\ [][\A cat \in Polled : EmptyViewStep(cat)]_vars
    /\ [](\A cat \in Polled :
            /\ Reappeared(cat) # {} => Where("event", cat) = {}
            /\ prev_fetched[cat] # 0 => Slot(cat) # <<>>)

\* an absent view fetched while the slot holds a message: nothing happens
C11_Witness ==
    /\ \E i \in Where("view", "NewMessage") : trace[i].n = -1
    /\ last_msg # <<>>
    /\ prev_fetched["NewMessage"] = last_msg[1].id
    /\ Ops("event") = {}
    /\ pc = "sleep"

\* ------------------------------------------------------------------ C12
\* C12: a tick fetches each category at most once and has at most one event
\* per category; the event carries the entity at index 0 of the fetched
\* view, whatever else the view holds.
C12_NewestOnly ==
    /\ \A cat \in Polled :
          /\ Cardinality(Where("fetch", cat)) <= 1
          /\ Cardinality(Where("view", cat)) <= 1
          /\ Cardinality(Where("event", cat)) <= 1
          /\ \A e \in Where("event", cat) :
                \E v \in Where("view", cat) :
                    v < e /\ trace[v].n > 0 /\ trace[e].ent = trace[v].ent
    /\ Len(earlier) <= 1
    /\ \A k \in 1..Len(earlier) : earlier[k].events <= 1

\* a first fetch of several messages, none seen before: one event
C12_Witness ==
    /\ tick = 1
    /\ \E v \in Where("view", "NewMessage") : trace[v].n = 2
    /\ Cardinality(Where("event", "NewMessage")) = 1
    /\ Where("dispatched", "NewMessage") # {}

\* ------------------------------------------------------------------ C13
\* C13: each slot holds at most one element, and a slot that holds an
\* element never becomes empty.
C13_SlotAtMostOne ==
    /\ [](Len(last_msg) <= 1 /\ Len(last_domain) <= 1)
    /\ [][/\ last_msg # <<>> => last_msg' # <<>>
          /\ last_domain # <<>> => last_domain' # <<>>]_vars

\* a message slot that has been overwritten
C13_Witness ==
    /\ Len(last_msg) = 1
    /\ Where("set", "NewMessage") # {}
    /\ prev_fetched["NewMessage"] # 0
    /\ prev_fetched["NewMessage"] # last_msg[1].id

\* ------------------------------------------------------------------ C14
\* C14: a category without a handler is never fetched, its slot stays empty
\* and no event of it is made, in every tick; and a step of the message
\* check leaves the domain slot alone and makes no DomainChange event, as a
\* step of the domain check does for the message slot and NewMessage events.
Checking(cat) ==
    \/ pc = (IF cat = "NewMessage" THEN "get_messages" ELSE "get_domains")
    \/ pc = "handler" /\ cur.cat = cat
Other(cat) == IF cat = "NewMessage" THEN "DomainChange" ELSE "NewMessage"

IndependentStep(cat) ==
    Checking(cat) =>
        /\ (IF cat = "NewMessage" THEN last_domain' ELSE last_msg') = Slot(Other(cat))
        /\ \A j \in 1..Len(trace') :
              trace'[j].cat = Other(cat) => trace'[j].op \notin {"set", "event", "call"}

C14_UnsubscribedNotPolled ==
    /\ [](\A cat \in Polled :
            regs[cat] = <<>> =>
                /\ Slot(cat) = <<>>
                /\ prev_fetched[cat] = 0
                /\ \A i \in Idx : trace[i].cat # cat
                /\ \A k \in 1..Len(earlier) : earlier[k].cat # cat)
    /\ [][\A cat \in Polled : IndependentStep(cat)]_vars

\* domain handlers only: the domain has changed twice and no message was
\* ever fetched
C14_Witness ==
    /\ regs["NewMessage"] = <<>>
    /\ regs["DomainChange"] # <<>>
    /\ tick >= 2
    /\ prev_fetched["DomainChange"] # 0
    /\ Where("dispatched", "DomainChange") # {}
    /\ last_msg = <<>>

\* ------------------------------------------------------------------ C15
\* C15 as stated: in every tick whose fetch of a category is non-empty the
\* slot of the category is stored into exactly once.
C15_StoredOncePerFetch ==
    \A cat \in Polled :
        \A v \in Where("view", cat) :
            trace[v].n > 0 => Cardinality(Where("set", cat)) = 1

\* C15 as amended: the slot is stored into at most once in a tick: once in
\* the step in which the fetch returns a non-empty view whose newest
\* identifier is not the one in the slot (or the slot is empty), and then
\* with that newest entity; a non-empty view with the identifier in the slot
\* stores nothing; and no other step changes the slot.
ViewStep(cat) ==
    /\ Len(trace') > Len(trace)
    /\ trace'[Len(trace) + 1].op = "view"
    /\ trace'[Len(trace) + 1].cat = cat
    /\ trace'[Len(trace) + 1].n > 0
Viewed == trace'[Len(trace) + 1].ent
SlotAfter(cat) == IF cat = "NewMessage" THEN last_msg' ELSE last_domain'
SetsAfter(cat) == {j \in 1..Len(trace') : trace'[j].op = "set" /\ trace'[j].cat = cat}

StoreStep(cat) ==
    /\ (ViewStep(cat) /\ (Slot(cat) = <<>> \/ Slot(cat)[1].id # Viewed.id))
          => (SlotAfter(cat) = <<Viewed>> /\ Cardinality(SetsAfter(cat)) = 1)
    /\ (ViewStep(cat) /\ Slot(cat) # <<>> /\ Slot(cat)[1].id = Viewed.id)
          => (SlotAfter(cat) = Slot(cat) /\ SetsAfter(cat) = {})
    /\ SlotAfter(cat) # Slot(cat)
          => /\ pc = (IF cat = "NewMessage" THEN "get_messages" ELSE "get_domains")
             /\ ViewStep(cat)
             /\ (Slot(cat) = <<>> \/ Slot(cat)[1].id # Viewed.id)

C15_StoredOnChangeOnly ==
    /\ [][\A cat \in Polled : StoreStep(cat)]_vars
    /\ [](\A cat \in Polled : Cardinality(Where("set", cat)) <= 1)

\* a domain slot overwritten by the fetch of another identifier
C15_Witness ==
    /\ Where("set", "DomainChange") # {}
    /\ prev_fetched["DomainChange"] # 0
    /\ last_domain # <<>>
    /\ last_domain[1].id # prev_fetched["DomainChange"]
    /\ pc = "sleep"

\* ------------------------------------------------------------------ C16
\* C16: the slot is set to the fetched entity before any handler is invoked
\* for it: every invocation in the check follows a store of the entity the
\* event carries, the slot holds that entity at the invocation and for the
\* rest of the check, and still holds it after a handler has failed.
C16_StoredBeforeDispatch ==
    /\ \A i \in Ops("call") :
          /\ Slot(trace[i].cat) = <<trace[i].ent>>
          /\ \E s \in Where("set", trace[i].cat) :
                /\ s < i
                /\ trace[s].ent = trace[i].ent
                /\ \A e \in Where("event", trace[i].cat) :
                      s < e /\ e < i /\ trace[e].ent = trace[i].ent
    /\ \A r \in Ops("raise") :
          /\ r > 1
          /\ trace[r - 1].op = "call"
          /\ trace[r - 1].cat = trace[r].cat
          /\ Slot(trace[r].cat) = <<trace[r - 1].ent>>

\* a handler of a message that replaced another one has failed, the loop has
\* ended, and the slot holds the message of the event
C16_Witness ==
    /\ pc = "done"
    /\ prev_fetched["NewMessage"] # 0
    /\ \E r \in Where("raise", "NewMessage") :
          /\ last_msg = <<trace[r - 1].ent>>
          /\ trace[r - 1].ent.id # prev_fetched["NewMessage"]

\* ------------------------------------------------------------------ C17
\* C17: when a handler fails, the rest of the tick is abandoned: the handlers
\* registered after it are not invoked (the invocations made are those of the
\* registrations up to the failing one), nothing is fetched, stored or
\* dispatched after the failure, the loop is on its way out; and when the
\* failure is in the dispatch of a NewMessage event the domain check of the
\* tick is not performed. A check that was followed by another one in the
\* tick had every invoked handler return.
C17_FailureAbandonsTick ==
    /\ \A r \in Ops("raise") :
          LET cat == trace[r].cat
              k == Cardinality(Where("call", cat))
          IN  /\ pc \in {"close_exc", "done"}
              /\ exc = "handler"
              /\ k >= 1
              /\ k <= Len(regs[cat])
              /\ trace[r].h = regs[cat][k]
              /\ \A j \in Idx :
                    j > r => trace[j].op \in {"close", "print", "interrupt"}
              /\ cat = "NewMessage" =>
                    /\ \A j \in Idx : trace[j].cat # "DomainChange"
                    /\ earlier = <<>>
    /\ \A t \in 1..Len(earlier) : earlier[t].calls = earlier[t].returns

\* both categories subscribed: the handler of a message has failed, the loop
\* has ended and the domains were not fetched in the tick
C17_Witness ==
    /\ regs["NewMessage"] # <<>>
    /\ regs["DomainChange"] # <<>>
    /\ Where("raise", "NewMessage") # {}
    /\ Where("fetch", "DomainChange") = {}
    /\ tick >= 2
    /\ pc = "done"
    /\ runner_result = "returned"

\* ------------------------------------------------------------------ C18
\* C18: once close() has been called on the client, the loop fetches nothing
\* and invokes no handler: it is closing or over, and what follows the first
\* close() is nothing but a second close(), output and the interruption.
C18_NothingAfterClose ==
    close_calls > 0 =>
        /\ pc \in {"close_nosub", "close_exc", "done"}
        /\ Ops("close") # {}
        /\ \A c \in Ops("close") :
              \A j \in Idx :
                  j > c => trace[j].op \in {"close", "print", "interrupt"}

C18_AfterCloseStep ==
    close_calls > 0 =>
        /\ tick' = tick
        /\ last_msg' = last_msg
        /\ last_domain' = last_domain
        /\ earlier' = earlier
        /\ pc' \in {"close_exc", "done"}

C18_ClosedForGood == [](C18_NothingAfterClose) /\ [][C18_AfterCloseStep]_vars

\* the loop has polled, dispatched and then closed the client in a later tick
C18_Witness ==
    /\ pc = "done"
    /\ close_calls >= 1
    /\ tick >= 2
    /\ Ops("call") # {}
    /\ Ops("close") # {}
    /\ prev_fetched["NewMessage"] # 0

\* ------------------------------------------------------------------ C19
\* C19: with a non-empty handler table, as long as no handler and no fetch
\* has failed and no interruption has arrived, the started loop has not
\* ended and is not ending, close() has not been called, and the loop can
\* take its next step (the sleep ends, the fetch returns, the handler
\* returns). When the registrations are all for a category that is neither
\* NewMessage nor DomainChange, nothing is ever fetched, stored, dispatched
\* or closed and the no-subscriber exit is never taken.
Undisturbed == Failures = {} /\ Ops("interrupt") = {}
OtherOnly ==
    /\ regs["BaseEvent"] # <<>>
    /\ regs["NewMessage"] = <<>>
    /\ regs["DomainChange"] = <<>>

C19_RunsOn ==
    /\ (~NoRegistration /\ pc # "config" /\ Undisturbed) =>
          /\ pc \in {"sleep", "get_messages", "get_domains", "handler"}
          /\ close_calls = 0
          /\ Ops("close") = {}
          /\ exc = "none"
          /\ runner_result = "running"
          /\ run_result = "running"
          /\ (pc = "sleep" /\ tick < MaxTicks) => ENABLED SleepDone
          /\ pc = "get_messages" => ENABLED GetMessagesReturn
          /\ pc = "get_domains" => ENABLED GetDomainsReturn
          /\ pc = "handler" => ENABLED HandlerReturn
    /\ OtherOnly =>
          /\ \A i \in Idx : trace[i].op \in {"print", "interrupt"}
          /\ earlier = <<>>
          /\ last_msg = <<>>
          /\ last_domain = <<>>
          /\ close_calls = 0
          /\ exc = "none"
          /\ pc \in {"config", "sleep", "done"}
          /\ pc = "done" => runner_result = "KeyboardInterrupt"

\* a loop whose only handler is subscribed to the base event category is in
\* its last modelled tick, still running
C19_Witness ==
    /\ OtherOnly
    /\ tick = MaxTicks
    /\ pc = "sleep"
    /\ close_calls = 0
    /\ runner_result = "running"

====
